---- MODULE Spec2Model ----
(***************************************************************************)
(* Model of scorers.py: the weighting classes, the four scoring classes    *)
(* composed by multiple inheritance, and the reflective registry           *)
(* get_scorers().                                                          *)
(*                                                                         *)
(* Numbers.  Every value the module computes from non-negative integers is *)
(* a root of a non-negative rational, so a number is held exactly as       *)
(* [num, den, deg], standing for (num/den)^(1/deg).  Floating-point        *)
(* rounding is not modelled: equalities are equalities of real numbers.    *)
(*                                                                         *)
(* Classes.  Method resolution is computed, not assumed: Bases holds the   *)
(* base lists of the class statements, MRO is the C3 linearisation, and    *)
(* super().m is the first class after the calling class, in the MRO of the *)
(* class the method is bound to, whose body defines m.                     *)
(***************************************************************************)
EXTENDS Integers, Sequences, FiniteSets, TLC

VARIABLES post, ret, defined, registry

vars == <<post, ret, defined, registry>>

\* ------------------------------------------------------------------ bounds
MaxCount == 3
MaxFollowers == 4
MaxDefs == 2

\* ------------------------------------------------------- exact arithmetic
RECURSIVE Pow(_, _)
Pow(b, e) == IF e = 0 THEN 1 ELSE b * Pow(b, e - 1)

RECURSIVE Gcd(_, _)
Gcd(a, b) == IF b = 0 THEN a ELSE Gcd(b, a % b)

Lcm(a, b) == (a * b) \div Gcd(a, b)

RECURSIVE Product(_)
Product(s) == IF s = <<>> THEN 1 ELSE Head(s) * Product(Tail(s))

\* the Python int n
PyInt(n) == [num |-> n, den |-> 1, deg |-> 1]

\* x * y
Mul(x, y) ==
    LET L == Lcm(x.deg, y.deg)
    IN  [num |-> Pow(x.num, L \div x.deg) * Pow(y.num, L \div y.deg),
         den |-> Pow(x.den, L \div x.deg) * Pow(y.den, L \div y.deg),
         deg |-> L]

\* 1 / x, for x # 0
Inverse(x) == [num |-> x.den, den |-> x.num, deg |-> x.deg]

\* math.sqrt(n) of a non-negative integer n
sqrt(n) == [num |-> n, den |-> 1, deg |-> 2]

\* scipy.stats.gmean(a): the Len(a)-th root of the product of a
gmean(a) == [num |-> Product(a), den |-> 1, deg |-> Len(a)]

\* x <= y and x = y as real numbers
RadLe(x, y) ==
    LET L == Lcm(x.deg, y.deg)
    IN  Pow(x.num, L \div x.deg) * Pow(y.den, L \div y.deg)
            <= Pow(y.num, L \div y.deg) * Pow(x.den, L \div x.deg)

RadEq(x, y) == RadLe(x, y) /\ RadLe(y, x)

RadLt(x, y) == RadLe(x, y) /\ ~RadLe(y, x)

\* ------------------------------------------------------------ class names
cABC == <<"A", "B", "C">>
cBoost == <<"B", "o", "o", "s", "t">>
cExtended == <<"E", "x", "t", "e", "n", "d", "e", "d">>
cFollower == <<"F", "o", "l", "l", "o", "w", "e", "r">>
cInverse == <<"I", "n", "v", "e", "r", "s", "e">>
cLog == <<"L", "o", "g">>
cScorer == <<"S", "c", "o", "r", "e", "r">>
cSimple == <<"S", "i", "m", "p", "l", "e">>
cUniform == <<"U", "n", "i", "f", "o", "r", "m">>
cV2 == <<"V", "2">>
cWeight == <<"W", "e", "i", "g", "h", "t">>
cWeighted == <<"W", "e", "i", "g", "h", "t", "e", "d">>

\* the characters of the names above, in code-point order
Alphabet ==
    <<"2", "A", "B", "C", "E", "F", "I", "L", "S", "U", "V", "W", "c", "d",
      "e", "f", "g", "h", "i", "l", "m", "n", "o", "p", "r", "s", "t", "v",
      "w", "x">>

Ord(c) == CHOOSE i \in 1..Len(Alphabet) : Alphabet[i] = c

\* s < t in Python's string order
RECURSIVE StrLt(_, _)
StrLt(s, t) ==
    IF t = <<>> THEN FALSE
    ELSE IF s = <<>> THEN TRUE
    ELSE IF Head(s) = Head(t) THEN StrLt(Tail(s), Tail(t))
    ELSE Ord(Head(s)) < Ord(Head(t))

\* classes bound in the module namespace by the source
ModuleClasses ==
    {"ABC", "Weight", "UniformWeight", "InverseFollowerWeight", "Scorer",
     "SimpleScorer", "SimpleWeightedScorer", "ExtendedSimpleScorer",
     "ExtendedSimpleWeightedScorer"}

\* classes a later class statement in the module may add
ExtensionClasses ==
    {"BoostScorer", "ScorerBoost", "Boost", "BoostScorerV2",
     "BoostWeightedScorer", "LogWeight"}

\* Bases with the bases of SimpleWeightedScorer in the other order
BasesSwapped ==
    [object |-> <<>>,
     ABC |-> <<"object">>,
     Weight |-> <<"ABC">>,
     UniformWeight |-> <<"Weight">>,
     InverseFollowerWeight |-> <<"Weight">>,
     Scorer |-> <<"ABC">>,
     SimpleScorer |-> <<"UniformWeight", "Scorer">>,
     SimpleWeightedScorer |-> <<"SimpleScorer", "InverseFollowerWeight">>,
     ExtendedSimpleScorer |-> <<"UniformWeight", "Scorer">>,
     ExtendedSimpleWeightedScorer |->
         <<"InverseFollowerWeight", "ExtendedSimpleScorer">>,
     BoostScorer |-> <<"UniformWeight", "Scorer">>,
     ScorerBoost |-> <<"UniformWeight", "Scorer">>,
     Boost |-> <<"UniformWeight", "Scorer">>,
     BoostScorerV2 |-> <<"UniformWeight", "Scorer">>,
     BoostWeightedScorer |-> <<"InverseFollowerWeight", "BoostScorer">>,
     LogWeight |-> <<"Weight">>]

\* the base list of each class statement
Bases ==
    [object |-> <<>>,
     ABC |-> <<"object">>,
     Weight |-> <<"ABC">>,
     UniformWeight |-> <<"Weight">>,
     InverseFollowerWeight |-> <<"Weight">>,
     Scorer |-> <<"ABC">>,
     SimpleScorer |-> <<"UniformWeight", "Scorer">>,
     SimpleWeightedScorer |-> <<"InverseFollowerWeight", "SimpleScorer">>,
     ExtendedSimpleScorer |-> <<"UniformWeight", "Scorer">>,
     ExtendedSimpleWeightedScorer |->
         <<"InverseFollowerWeight", "ExtendedSimpleScorer">>,
     BoostScorer |-> <<"UniformWeight", "Scorer">>,
     ScorerBoost |-> <<"UniformWeight", "Scorer">>,
     Boost |-> <<"UniformWeight", "Scorer">>,
     BoostScorerV2 |-> <<"UniformWeight", "Scorer">>,
     BoostWeightedScorer |-> <<"InverseFollowerWeight", "BoostScorer">>,
     LogWeight |-> <<"Weight">>]

\* the name each class is bound to in the module
ClassName ==
    [ABC |-> cABC,
     Weight |-> cWeight,
     UniformWeight |-> cUniform \o cWeight,
     InverseFollowerWeight |-> cInverse \o cFollower \o cWeight,
     Scorer |-> cScorer,
     SimpleScorer |-> cSimple \o cScorer,
     SimpleWeightedScorer |-> cSimple \o cWeighted \o cScorer,
     ExtendedSimpleScorer |-> cExtended \o cSimple \o cScorer,
     ExtendedSimpleWeightedScorer |->
         cExtended \o cSimple \o cWeighted \o cScorer,
     BoostScorer |-> cBoost \o cScorer,
     ScorerBoost |-> cScorer \o cBoost,
     Boost |-> cBoost,
     BoostScorerV2 |-> cBoost \o cScorer \o cV2,
     BoostWeightedScorer |-> cBoost \o cWeighted \o cScorer,
     LogWeight |-> cLog \o cWeight]

\* the methods each class body defines
Defines ==
    [c \in DOMAIN Bases |->
        CASE c \in {"Weight", "UniformWeight", "InverseFollowerWeight",
                    "LogWeight"} -> {"weight"}
          [] c \in {"object", "ABC"} -> {}
          [] OTHER -> {"score"}]

\* --------------------------------------------------- method resolution
InTail(c, s) == \E i \in 2..Len(s) : s[i] = c

NonEmpty(s) == Len(s) > 0

\* the merge step of the C3 linearisation
RECURSIVE Merge(_)
Merge(seqs) ==
    LET ne == SelectSeq(seqs, NonEmpty)
    IN  IF ne = <<>> THEN <<>>
        ELSE LET good(i) == \A j \in 1..Len(ne) : ~InTail(Head(ne[i]), ne[j])
                 idx == CHOOSE i \in 1..Len(ne) :
                            good(i) /\ \A k \in 1..(i - 1) : ~good(k)
                 h == Head(ne[idx])
             IN  <<h>> \o Merge([j \in 1..Len(ne) |->
                            IF Head(ne[j]) = h THEN Tail(ne[j]) ELSE ne[j]])

\* cls.__mro__
RECURSIVE MRO(_)
MRO(c) ==
    <<c>> \o Merge([i \in 1..Len(Bases[c]) |-> MRO(Bases[c][i])]
                   \o <<Bases[c]>>)

\* the linearisation of every class, computed once
Linearisation == [c \in DOMAIN Bases |-> MRO(c)]

IndexOf(c, s) == CHOOSE i \in 1..Len(s) : s[i] = c

\* super(this, cls).attr: the class whose attr the lookup finds
SuperLookup(this, cls, attr) ==
    LET m == Linearisation[cls]
        from == IndexOf(this, m) + 1
        i == CHOOSE k \in from..Len(m) :
                 attr \in Defines[m[k]]
                 /\ \A j \in from..(k - 1) : attr \notin Defines[m[j]]
    IN  m[i]

\* cls.attr: the first class of cls.__mro__ whose body defines attr
Resolve(cls, attr) ==
    LET m == Linearisation[cls]
        i == CHOOSE k \in 1..Len(m) :
                 attr \in Defines[m[k]]
                 /\ \A j \in 1..(k - 1) : attr \notin Defines[m[j]]
    IN  m[i]

\* issubclass(c, d)
issubclass(c, d) ==
    \E i \in 1..Len(Linearisation[c]) : Linearisation[c][i] = d

\* -------------------------------------------------------------- the post
Counters == {"reblogs_count", "favourites_count", "replies_count"}

Fields == Counters \cup {"account", "followers_count"}

\* scored_post with info holding the fields named in present
MkPost(r, f, rp, fo, present) ==
    [info |->
        [k \in present \cap (Counters \cup {"account"}) |->
            CASE k = "reblogs_count" -> r
              [] k = "favourites_count" -> f
              [] k = "replies_count" -> rp
              [] k = "account" ->
                    IF "followers_count" \in present
                    THEN [followers_count |-> fo]
                    ELSE <<>>]]

\* info[k] raises KeyError
Missing(p, k) == k \notin DOMAIN p.info

\* ----------------------------------------------------------- the methods
\* A call ends by returning val or by raising KeyError; calls lists, in
\* order, the classes whose weight body was entered during the call.
Return(v, calls) == [status |-> "return", val |-> v, calls |-> calls]

Raise(calls) == [status |-> "KeyError", calls |-> calls]

\* the body of an abstract method is pass
ReturnNone == [status |-> "None", calls |-> <<>>]

UniformWeight_weight(cls, p) == Return(PyInt(1), <<"UniformWeight">>)

\* InverseFollowerWeight.weight dividing by the count, not by its root
InverseFollowerWeight_weight_NoRoot(cls, p) ==
    LET me == <<"InverseFollowerWeight">>
    IN  IF Missing(p, "account") THEN Raise(me)
        ELSE IF "followers_count" \notin DOMAIN p.info["account"]
        THEN Raise(me)
        ELSE IF p.info["account"]["followers_count"] = 0
        THEN Return(PyInt(0), me)
        ELSE Return(Mul(PyInt(1),
                        Inverse(PyInt(p.info["account"]["followers_count"]))),
                    me)

\* InverseFollowerWeight.weight reading the count with a default of 0
InverseFollowerWeight_weight_Default(cls, p) ==
    LET me == <<"InverseFollowerWeight">>
    IN  IF Missing(p, "account") THEN Return(PyInt(0), me)
        ELSE IF "followers_count" \notin DOMAIN p.info["account"]
        THEN Return(PyInt(0), me)
        ELSE IF p.info["account"]["followers_count"] = 0
        THEN Return(PyInt(0), me)
        ELSE Return(Mul(PyInt(1),
                        Inverse(sqrt(p.info["account"]["followers_count"]))),
                    me)

\* InverseFollowerWeight.weight multiplying by the root
InverseFollowerWeight_weight_Direct(cls, p) ==
    LET me == <<"InverseFollowerWeight">>
    IN  IF Missing(p, "account") THEN Raise(me)
        ELSE IF "followers_count" \notin DOMAIN p.info["account"]
        THEN Raise(me)
        ELSE IF p.info["account"]["followers_count"] = 0
        THEN Return(PyInt(0), me)
        ELSE Return(Mul(PyInt(1),
                        sqrt(p.info["account"]["followers_count"])),
                    me)

InverseFollowerWeight_weight(cls, p) ==
    LET me == <<"InverseFollowerWeight">>
    IN  IF Missing(p, "account") THEN Raise(me)
        ELSE IF "followers_count" \notin DOMAIN p.info["account"]
        THEN Raise(me)
        ELSE IF p.info["account"]["followers_count"] = 0
        THEN Return(PyInt(0), me)
        ELSE Return(Mul(PyInt(1),
                        Inverse(sqrt(p.info["account"]["followers_count"]))),
                    me)

RECURSIVE Call(_, _, _, _)

\* SimpleScorer.score calling cls.weight in place of super().weight
SimpleScorer_score_ClsWeight(cls, p) ==
    IF Missing(p, "reblogs_count") \/ Missing(p, "favourites_count")
    THEN Raise(<<>>)
    ELSE LET metric_average ==
                 gmean(<<p.info["reblogs_count"], p.info["favourites_count"]>>)
             w == Call(Resolve(cls, "weight"), "weight", cls, p)
         IN  IF w.status # "return" THEN w
             ELSE Return(Mul(metric_average, w.val), w.calls)

SimpleScorer_score(cls, p) ==
    IF Missing(p, "reblogs_count") \/ Missing(p, "favourites_count")
    THEN Raise(<<>>)
    ELSE LET metric_average ==
                 gmean(<<p.info["reblogs_count"], p.info["favourites_count"]>>)
             w == Call(SuperLookup("SimpleScorer", cls, "weight"),
                       "weight", cls, p)
         IN  IF w.status # "return" THEN w
             ELSE Return(Mul(metric_average, w.val), w.calls)

SimpleWeightedScorer_score(cls, p) ==
    LET s == Call(SuperLookup("SimpleWeightedScorer", cls, "score"),
                  "score", cls, p)
    IN  IF s.status # "return" THEN s
        ELSE LET w == Call(SuperLookup("SimpleWeightedScorer", cls, "weight"),
                           "weight", cls, p)
             IN  IF w.status # "return"
                 THEN [w EXCEPT !.calls = s.calls \o w.calls]
                 ELSE Return(Mul(s.val, w.val), s.calls \o w.calls)

\* ExtendedSimpleScorer.score aggregating the two counters of SimpleScorer
ExtendedSimpleScorer_score_TwoFields(cls, p) ==
    IF \E k \in Counters : Missing(p, k)
    THEN Raise(<<>>)
    ELSE LET metric_average ==
                 gmean(<<p.info["reblogs_count"], p.info["favourites_count"]>>)
             w == Call(SuperLookup("ExtendedSimpleScorer", cls, "weight"),
                       "weight", cls, p)
         IN  IF w.status # "return" THEN w
             ELSE Return(Mul(metric_average, w.val), w.calls)

ExtendedSimpleScorer_score(cls, p) ==
    IF \E k \in Counters : Missing(p, k)
    THEN Raise(<<>>)
    ELSE LET metric_average ==
                 gmean(<<p.info["reblogs_count"], p.info["favourites_count"],
                         p.info["replies_count"]>>)
             w == Call(SuperLookup("ExtendedSimpleScorer", cls, "weight"),
                       "weight", cls, p)
         IN  IF w.status # "return" THEN w
             ELSE Return(Mul(metric_average, w.val), w.calls)

ExtendedSimpleWeightedScorer_score(cls, p) ==
    LET s == Call(SuperLookup("ExtendedSimpleWeightedScorer", cls, "score"),
                  "score", cls, p)
    IN  IF s.status # "return" THEN s
        ELSE LET w == Call(SuperLookup("ExtendedSimpleWeightedScorer", cls,
                                       "weight"),
                           "weight", cls, p)
             IN  IF w.status # "return"
                 THEN [w EXCEPT !.calls = s.calls \o w.calls]
                 ELSE Return(Mul(s.val, w.val), s.calls \o w.calls)

\* run the body of owner.attr as a classmethod bound to cls
Call(owner, attr, cls, p) ==
    CASE owner = "UniformWeight" /\ attr = "weight" ->
            UniformWeight_weight(cls, p)
      [] owner = "InverseFollowerWeight" /\ attr = "weight" ->
            InverseFollowerWeight_weight(cls, p)
      [] owner = "SimpleScorer" /\ attr = "score" ->
            SimpleScorer_score(cls, p)
      [] owner = "SimpleWeightedScorer" /\ attr = "score" ->
            SimpleWeightedScorer_score(cls, p)
      [] owner = "ExtendedSimpleScorer" /\ attr = "score" ->
            ExtendedSimpleScorer_score(cls, p)
      [] owner = "ExtendedSimpleWeightedScorer" /\ attr = "score" ->
            ExtendedSimpleWeightedScorer_score(cls, p)
      [] OTHER -> ReturnNone

\* cls.attr(p): attribute lookup along cls.__mro__, then the call
Invoke(cls, attr, p) == Call(Resolve(cls, attr), attr, cls, p)

\* ---------------------------------------------------------- the registry
StartsWith(s, old) == Len(s) >= Len(old) /\ SubSeq(s, 1, Len(old)) = old

\* str.replace(old, ""): every non-overlapping occurrence, left to right
RECURSIVE replace(_, _)
replace(s, old) ==
    IF s = <<>> THEN <<>>
    ELSE IF StartsWith(s, old)
    THEN replace(SubSeq(s, Len(old) + 1, Len(s)), old)
    ELSE <<Head(s)>> \o replace(Tail(s), old)

\* inspect.getmembers(module, inspect.isclass): the classes bound in the
\* module, sorted by name
RECURSIVE getmembers(_)
getmembers(classes) ==
    IF classes = {} THEN <<>>
    ELSE LET first == CHOOSE c \in classes :
                          \A d \in classes \ {c} :
                              StrLt(ClassName[c], ClassName[d])
         IN  <<first>> \o getmembers(classes \ {first})

\* the filter without the test that excludes Scorer itself
IsScorerEntry_KeepBase(c) == issubclass(c, "Scorer")

\* the filter of the list comprehension
IsScorerEntry(c) == c # "Scorer" /\ issubclass(c, "Scorer")

\* get_scorers() when the module binds ModuleClasses and defs
get_scorers(defs) ==
    LET all_classes == getmembers(ModuleClasses \cup defs)
        scorers == SelectSeq(all_classes, IsScorerEntry)
        key(i) == replace(ClassName[scorers[i]], cScorer)
        keys == {key(i) : i \in 1..Len(scorers)}
    IN  [k \in keys |->
            LET last == CHOOSE i \in 1..Len(scorers) :
                            key(i) = k
                            /\ \A j \in (i + 1)..Len(scorers) : key(j) # k
            IN  scorers[last]]

\* ------------------------------------------------------------ operations
Strategies ==
    {"SimpleScorer", "SimpleWeightedScorer", "ExtendedSimpleScorer",
     "ExtendedSimpleWeightedScorer"}

Weightings == {"UniformWeight", "InverseFollowerWeight"}

NotCalled == [status |-> "notcalled", calls |-> <<>>]

NoRegistry == [called |-> FALSE, at |-> {}, map |-> <<>>]

\* posts with every field present
GridPosts ==
    {MkPost(r, f, rp, fo, Fields) :
        r \in 0..MaxCount, f \in 0..MaxCount, rp \in 0..MaxCount,
        fo \in 0..MaxFollowers}

\* the posts of the worked examples
ExamplePosts ==
    {MkPost(4, 9, 16, 0, Fields), MkPost(4, 9, 0, 100, Fields)}

\* posts lacking at least one field
PartialPosts ==
    {MkPost(4, 9, 16, 100, present) : present \in (SUBSET Fields) \ {Fields}}

InitWith(posts) ==
    /\ post \in posts
    /\ ret = [op \in Strategies \cup Weightings |-> NotCalled]
    /\ defined = {}
    /\ registry = NoRegistry

InitCalc == InitWith(GridPosts \cup ExamplePosts \cup PartialPosts)

Init ==
    InitWith({MkPost(4, 9, 0, 100, Fields),
              MkPost(4, 9, 16, 100, Fields \ {"replies_count"}),
              MkPost(4, 9, 16, 100, Fields \ {"account"})})

\* c.score(post) that also clears a counter of the record it was given
ScoreCall_Writing(c) ==
    /\ ret' = [ret EXCEPT ![c] = Invoke(c, "score", post)]
    /\ post' = [info |-> [k \in DOMAIN post.info |->
                    IF k = "reblogs_count" THEN 0 ELSE post.info[k]]]
    /\ UNCHANGED <<defined, registry>>

\* a caller evaluates c.score(post)
ScoreCall(c) ==
    /\ ret' = [ret EXCEPT ![c] = Invoke(c, "score", post)]
    /\ UNCHANGED <<post, defined, registry>>

\* a caller evaluates w.weight(post)
WeightCall(w) ==
    /\ ret' = [ret EXCEPT ![w] = Invoke(w, "weight", post)]
    /\ UNCHANGED <<post, defined, registry>>

\* a caller evaluates get_scorers()
GetScorersCall ==
    /\ registry' = [called |-> TRUE, at |-> defined,
                    map |-> get_scorers(defined)]
    /\ UNCHANGED <<post, ret, defined>>

\* a class statement for c is added to the module
DefineClass(c) ==
    /\ c \notin defined
    /\ Cardinality(defined) < MaxDefs
    /\ \A i \in 1..Len(Bases[c]) : Bases[c][i] \in ModuleClasses \cup defined
    /\ defined' = defined \cup {c}
    /\ UNCHANGED <<post, ret, registry>>

NextCalc ==
    \/ \E c \in Strategies : ScoreCall(c)
    \/ \E w \in Weightings : WeightCall(w)

Next ==
    \/ \E c \in Strategies : ScoreCall(c)
    \/ \E w \in Weightings : WeightCall(w)
    \/ GetScorersCall
    \/ \E c \in ExtensionClasses : DefineClass(c)

SpecCalc == InitCalc /\ [][NextCalc]_vars

Spec == Init /\ [][Next]_vars

\* ================================================================ claims
Called(op) == ret[op].status # "notcalled"

Returned(op) == ret[op].status = "return"

\* every field of the data model is present in post
Complete ==
    /\ DOMAIN post.info = Counters \cup {"account"}
    /\ "followers_count" \in DOMAIN post.info["account"]

reblogs == post.info["reblogs_count"]

favourites == post.info["favourites_count"]

replies == post.info["replies_count"]

followers == post.info["account"]["followers_count"]

Zero == PyInt(0)

\* gmean(selected counters) x weight in closed form: the real number whose
\* deg-th power is num/den
ClosedForm(c) ==
    CASE c = "SimpleScorer" ->
            [num |-> reblogs * favourites, den |-> 1, deg |-> 2]
      [] c = "SimpleWeightedScorer" ->
            IF followers = 0 THEN Zero
            ELSE [num |-> reblogs * favourites, den |-> followers, deg |-> 2]
      [] c = "ExtendedSimpleScorer" ->
            [num |-> reblogs * favourites * replies, den |-> 1, deg |-> 3]
      [] c = "ExtendedSimpleWeightedScorer" ->
            IF followers = 0 THEN Zero
            ELSE [num |-> Pow(reblogs * favourites * replies, 2),
                  den |-> Pow(followers, 3), deg |-> 6]

\* C1: on a post with all fields present, each of the four strategies
\* returns gmean(its counters) x its weight: Simple = sqrt(r*f),
\* SimpleWeighted = sqrt(r*f/followers) (0 for no followers), ExtendedSimple
\* = cbrt(r*f*p), ExtendedSimpleWeighted = cbrt(r*f*p)/sqrt(followers); with
\* r=4, f=9, followers=100 SimpleWeighted is 3/5.
C1_ScoreIsGmeanTimesWeight ==
    /\ \A c \in Strategies :
          (Complete /\ Called(c)) =>
              Returned(c) /\ RadEq(ret[c].val, ClosedForm(c))
    /\ (post = MkPost(4, 9, 0, 100, Fields) /\ Called("SimpleWeightedScorer"))
          => RadEq(ret["SimpleWeightedScorer"].val,
                   [num |-> 3, den |-> 5, deg |-> 1])

C1_Witness ==
    /\ post = MkPost(4, 9, 0, 100, Fields)
    /\ \A c \in Strategies : Returned(c)

\* C2: InverseFollowerWeight.weight returns 0 for follower count 0, and for
\* a follower count > 0 a w > 0 with w * w * follower_count = 1.
C2_InverseFollowerWeight ==
    (Complete /\ Called("InverseFollowerWeight")) =>
        LET w == ret["InverseFollowerWeight"].val
        IN  /\ Returned("InverseFollowerWeight")
            /\ followers = 0 => w = Zero
            /\ followers > 0 =>
                  /\ RadLt(Zero, w)
                  /\ RadEq(Mul(Mul(w, w), PyInt(followers)), PyInt(1))

C2_Witness ==
    /\ Complete
    /\ followers = MaxFollowers
    /\ Returned("InverseFollowerWeight")

FourScorers ==
    (cSimple :> "SimpleScorer")
    @@ (cSimple \o cWeighted :> "SimpleWeightedScorer")
    @@ (cExtended \o cSimple :> "ExtendedSimpleScorer")
    @@ (cExtended \o cSimple \o cWeighted :> "ExtendedSimpleWeightedScorer")

\* C3: with the module as the source defines it, get_scorers() returns
\* exactly the keys Simple, SimpleWeighted, ExtendedSimple and
\* ExtendedSimpleWeighted, each mapped to the class of that name; Scorer,
\* the weighting classes and ABC are never an entry.
C3_ExactlyFourScorers ==
    registry.called =>
        /\ registry.at = {} => registry.map = FourScorers
        /\ \A k \in DOMAIN registry.map :
              registry.map[k] \notin
                  {"Scorer", "Weight", "UniformWeight",
                   "InverseFollowerWeight", "LogWeight", "ABC"}

C3_Witness == registry.called /\ registry.at = {} /\ defined = {}

Aggregated(c) ==
    IF c \in {"SimpleScorer", "SimpleWeightedScorer"}
    THEN {"reblogs_count", "favourites_count"}
    ELSE Counters

\* C4: when a counter the strategy aggregates is 0 the score is exactly 0
\* for every follower count; for the two-counter strategies a zero reply
\* count with positive reblogs and favourites leaves the score positive
\* (unless the inverse-follower weight is 0).
C4_ZeroPropagation ==
    \A c \in Strategies :
        (Complete /\ Called(c)) =>
            /\ (\E k \in Aggregated(c) : post.info[k] = 0) =>
                  Returned(c) /\ ret[c].val.num = 0
            /\ (replies = 0 /\ reblogs > 0 /\ favourites > 0
                /\ c = "SimpleScorer") => RadLt(Zero, ret[c].val)
            /\ (replies = 0 /\ reblogs > 0 /\ favourites > 0 /\ followers > 0
                /\ c = "SimpleWeightedScorer") => RadLt(Zero, ret[c].val)

C4_Witness ==
    /\ Complete
    /\ replies = 0 /\ reblogs = MaxCount /\ favourites = 1 /\ followers = 0
    /\ \A c \in Strategies : Returned(c)

RemoveSuffix(s, suf) ==
    IF Len(s) >= Len(suf) /\ SubSeq(s, Len(s) - Len(suf) + 1, Len(s)) = suf
    THEN SubSeq(s, 1, Len(s) - Len(suf))
    ELSE s

\* C5: every key get_scorers() returns is the name of its class with a
\* trailing "Scorer" removed, and the unchanged name when the name does not
\* end in "Scorer".
C5_KeyIsNameWithoutSuffix ==
    registry.called =>
        \A k \in DOMAIN registry.map :
            k = RemoveSuffix(ClassName[registry.map[k]], cScorer)

Range(q) == {q[i] : i \in 1..Len(q)}

WeightingOf(c) ==
    IF c \in {"SimpleScorer", "ExtendedSimpleScorer"}
    THEN "UniformWeight"
    ELSE "InverseFollowerWeight"

C8_OneEntryPerStrategy ==
    registry.called =>
        LET strategies ==
                {c \in ModuleClasses \cup registry.at : IsScorerEntry(c)}
        IN  {registry.map[k] : k \in DOMAIN registry.map} = strategies

Reads(op) ==
    CASE op = "UniformWeight" -> {}
      [] op = "InverseFollowerWeight" -> {"account", "followers_count"}
      [] op = "SimpleScorer" -> {"reblogs_count", "favourites_count"}
      [] op = "SimpleWeightedScorer" ->
            {"reblogs_count", "favourites_count", "account",
             "followers_count"}
      [] op = "ExtendedSimpleScorer" -> Counters
      [] op = "ExtendedSimpleWeightedScorer" -> Fields

Present ==
    DOMAIN post.info
    \cup (IF "account" \in DOMAIN post.info
             /\ "followers_count" \in DOMAIN post.info["account"]
          THEN {"followers_count"}
          ELSE {})

\* C9: a call fails with the lookup error, returning nothing, exactly when
\* the post lacks a field the called operation reads; a missing field it does
\* not read causes no failure.
C9_MissingFieldRaises ==
    \A op \in Strategies \cup Weightings :
        Called(op) =>
            IF Reads(op) \subseteq Present
            THEN Returned(op)
            ELSE ret[op].status = "KeyError" /\ "val" \notin DOMAIN ret[op]

C9_Witness ==
    /\ Present = {"reblogs_count", "favourites_count"}
    /\ Returned("SimpleScorer")
    /\ ret["SimpleWeightedScorer"].status = "KeyError"
    /\ ret["ExtendedSimpleScorer"].status = "KeyError"
    /\ ret["InverseFollowerWeight"].status = "KeyError"

Pairs ==
    {<<"SimpleWeightedScorer", "SimpleScorer">>,
     <<"ExtendedSimpleWeightedScorer", "ExtendedSimpleScorer">>}

\* C10: on a post with all fields present the weighted score lies between 0
\* and the unweighted score, and equals it exactly when the follower count
\* is 1 or the unweighted score is 0.
C10_WeightedAtMostUnweighted ==
    \A pr \in Pairs :
        (Complete /\ Called(pr[1]) /\ Called(pr[2])) =>
            LET w == ret[pr[1]].val
                u == ret[pr[2]].val
            IN  /\ RadLe(Zero, w)
                /\ RadLe(w, u)
                /\ RadEq(w, u) <=> (followers = 1 \/ RadEq(u, Zero))

C10_Witness ==
    /\ Complete
    /\ followers = MaxFollowers
    /\ reblogs > 0 /\ favourites > 0 /\ replies > 0
    /\ \A pr \in Pairs : Returned(pr[1]) /\ Returned(pr[2])

====
